---- MODULE Spec2Model ----
(***************************************************************************)
(* Waitlist application (Flask handlers in routes.py over the SQLAlchemy   *)
(* models of models.py).  The store is the two tables waitlist and         *)
(* waitlist_entry; a row's primary key is its index in the table (rows are *)
(* never deleted).  Each request runs in its own ORM session: it reads     *)
(* rows with separate SELECTs, changes the loaded objects in memory and    *)
(* writes them in one transaction at db.session.commit().  Requests of     *)
(* different workers interleave between those store accesses.              *)
(***************************************************************************)
EXTENDS Integers, Sequences, FiniteSets, TLC

VARIABLES
  waitlists,   \* the waitlist table: row i is the Waitlist with id i
  entries,     \* the waitlist_entry table: row i is the WaitlistEntry with id i
  fkEnforced,  \* whether the store behind DATABASE_URL enforces foreign keys
  req,         \* per worker: the request it is handling, with its ORM session
  resp,        \* the response sent last
  nupd         \* the number of settings requests that passed their gate

vars == <<waitlists, entries, fkEnforced, req, resp, nupd>>

\* ------------------------------------------------------------------ bounds
\* workers handling requests at once; rows per table; settings requests let
\* through; distinct referral codes and form keys; largest referred_by tried
NumProcs == 2
MaxWaitlists == 2
MaxEntries == 3
MaxUpdates == 2
NumCodes == 3
NumFormKeys == 2
MaxRef == 2

Procs == 1..NumProcs
Users == {"u1", "u2"}
NoUser == "anon"
Callers == Users \cup {NoUser}
Slugs == {"beta", "gamma"}
Codes == 1..NumCodes
FormKeys == 1..NumFormKeys
RefIds == 1..MaxRef

\* ------------------------------------------------------------ the models
\* models.py: Waitlist.thank_you_page column default
DefaultThankYou ==
  [title |-> "Thank you for joining!",
   message |-> "You have been added to the waitlist.",
   custom_html |-> ""]

\* models.py: Waitlist.submission_settings column default
DefaultSubmission ==
  [notify_email |-> "", auto_response |-> "true", response_email_template |-> "default"]

\* models.py: a Waitlist row as create_waitlist builds it (column defaults applied)
NewWaitlist(data, owner, key) ==
  [name |-> data["name"],
   description |-> data["description"],
   url_slug |-> data["url_slug"],
   website_url |-> "None",
   form_key |-> key,
   thank_you_page |-> DefaultThankYou,
   submission_settings |-> DefaultSubmission,
   user_id |-> owner]

\* models.py: a WaitlistEntry row as join_waitlist builds it
NewEntry(wid, email, position, code, referredBy) ==
  [waitlist_id |-> wid,
   email |-> email,
   position |-> position,
   referral_code |-> code,
   referral_count |-> 0,
   referred_by |-> referredBy]

\* dict.get(key, default) on the request's JSON body
Get(data, key, default) == IF key \in DOMAIN data THEN data[key] ELSE default

\* ------------------------------------------------------------- responses
Idle == [op |-> "idle"]

NoResponse == [op |-> "none", status |-> 0, error |-> "", position |-> 0]

Ok(op, position) ==
  [op |-> op, status |-> 200, error |-> "", position |-> position]

\* return jsonify({'error': 'Unauthorized'}), 401
Unauthorized(op) ==
  [op |-> op, status |-> 401, error |-> "Unauthorized", position |-> 0]

\* except Exception as e: return jsonify({'error': str(e)}), 500
Caught(op, exc) ==
  [op |-> op, status |-> 500, error |-> exc, position |-> 0]

\* ------------------------------------------------------------------ Init
Init ==
  /\ waitlists = <<>>
  /\ entries = <<>>
  /\ fkEnforced \in BOOLEAN
  /\ req = [p \in Procs |-> Idle]
  /\ resp = NoResponse
  /\ nupd = 0

\* ------------------------------------------------------- create_waitlist
CreatePayloads ==
  {[name |-> "Beta", description |-> "d", url_slug |-> s] : s \in Slugs}
    \cup {[name |-> "Beta", description |-> "d"]}
    \cup {[name |-> "Beta", url_slug |-> "beta"]}
    \cup {[description |-> "d", url_slug |-> "beta"]}

\* WaitlistUniqueOk without unique=True on url_slug
WaitlistUniqueKeyOnly(w) ==
  \A i \in 1..Len(waitlists) : waitlists[i].form_key # w.form_key

\* the unique constraints of Waitlist.url_slug and Waitlist.form_key
WaitlistUniqueOk(w) ==
  \A i \in 1..Len(waitlists) :
    /\ waitlists[i].url_slug # w.url_slug
    /\ waitlists[i].form_key # w.form_key

\* the form_key default str(uuid.uuid4())[:8]: any key; the draws are enumerated
\* up to renaming, as a key already in use or the least key not in use
UsedFormKeys == {waitlists[i].form_key : i \in 1..Len(waitlists)}

Uuid4FormKey ==
  UsedFormKeys \cup
    (IF FormKeys \subseteq UsedFormKeys
       THEN {}
       ELSE {CHOOSE k \in FormKeys \ UsedFormKeys :
               \A d \in FormKeys \ UsedFormKeys : k <= d})

\* lines 141-162
CreateWaitlist(p, caller, data, key) ==
  /\ req[p] = Idle
  /\ Len(waitlists) < MaxWaitlists
  /\ UNCHANGED <<entries, fkEnforced, req, nupd>>
  /\ IF caller = NoUser
       THEN /\ resp' = Unauthorized("create")
            /\ UNCHANGED waitlists
       ELSE IF ~({"name", "description", "url_slug"} \subseteq DOMAIN data)
         THEN /\ resp' = Caught("create", "KeyError")
              /\ UNCHANGED waitlists
         ELSE IF ~WaitlistUniqueOk(NewWaitlist(data, caller, key))
           THEN /\ resp' = Caught("create", "IntegrityError")
                /\ UNCHANGED waitlists
           ELSE /\ waitlists' = Append(waitlists, NewWaitlist(data, caller, key))
                /\ resp' = Ok("create", 0)

\* --------------------------------------------------------- join_waitlist
JoinPayloads ==
  {[email |-> "a@x.com"]}
    \cup {[email |-> "a@x.com", referred_by |-> r] : r \in RefIds}
    \cup {[referred_by |-> 1]}

\* Waitlist.query.filter_by(url_slug=slug).first(): the row's id, 0 for None
WaitlistBySlug(slug) ==
  IF \E i \in 1..Len(waitlists) : waitlists[i].url_slug = slug
    THEN CHOOSE i \in 1..Len(waitlists) : waitlists[i].url_slug = slug
    ELSE 0

\* the ids of the entries of one waitlist
EntriesOf(wid) == {i \in 1..Len(entries) : entries[i].waitlist_id = wid}

\* NextPosition from the number of entries instead of the last position
NextPositionByCount(wid) == Cardinality(EntriesOf(wid)) + 1

\* NextPosition without the filter_by(waitlist_id): the last entry of any waitlist
NextPositionAnyWaitlist(wid) ==
  IF entries = <<>>
    THEN 1
    ELSE (CHOOSE m \in {entries[i].position : i \in 1..Len(entries)} :
            \A i \in 1..Len(entries) : entries[i].position <= m) + 1

\* filter_by(waitlist_id).order_by(position.desc()).first(), then
\* position = (last_entry.position + 1) if last_entry else 1
NextPosition(wid) ==
  IF EntriesOf(wid) = {}
    THEN 1
    ELSE (CHOOSE m \in {entries[i].position : i \in EntriesOf(wid)} :
            \A i \in EntriesOf(wid) : entries[i].position <= m) + 1

\* str(uuid.uuid4())[:8]: any code; the draws are enumerated up to renaming, as
\* a code already in use (in the table or in a running request) or the least
\* code not in use
UsedCodes ==
  {entries[i].referral_code : i \in 1..Len(entries)}
    \cup {req[q].entry.referral_code : q \in {r \in Procs : req[r].op = "join"}}

Uuid4 ==
  UsedCodes \cup
    (IF Codes \subseteq UsedCodes
       THEN {}
       ELSE {CHOOSE c \in Codes \ UsedCodes : \A d \in Codes \ UsedCodes : c <= d})

InFlightJoins == Cardinality({p \in Procs : req[p].op = "join"})

\* lines 167-183: resolve the waitlist, read the last position, build the entry
JoinRead(p, slug, data, code) ==
  /\ req[p] = Idle
  /\ Len(entries) + InFlightJoins < MaxEntries
  /\ UNCHANGED <<waitlists, entries, fkEnforced, nupd>>
  /\ LET wid == WaitlistBySlug(slug) IN
     IF wid = 0
       THEN /\ resp' = Caught("join", "NotFound")
            /\ UNCHANGED req
       ELSE IF "email" \notin DOMAIN data
         THEN /\ resp' = Caught("join", "KeyError")
              /\ UNCHANGED req
         ELSE /\ req' = [req EXCEPT ![p] =
                   [op |-> "join",
                    pc |-> IF Get(data, "referred_by", 0) # 0 THEN "referrer" ELSE "commit",
                    entry |-> NewEntry(wid, data["email"], NextPosition(wid), code,
                                       Get(data, "referred_by", 0)),
                    referrer |-> 0,
                    count |-> 0]]
              /\ UNCHANGED resp

\* JoinReferrer writing the incremented count to the table at once, in a
\* transaction of its own
JoinReferrerAutocommit(p) ==
  /\ req[p].op = "join"
  /\ req[p].pc = "referrer"
  /\ UNCHANGED <<waitlists, fkEnforced, resp, nupd>>
  /\ LET id == req[p].entry.referred_by IN
     IF id \in 1..Len(entries)
       THEN /\ entries' = [entries EXCEPT ![id].referral_count = @ + 1]
            /\ req' = [req EXCEPT ![p].pc = "commit"]
       ELSE /\ UNCHANGED entries
            /\ req' = [req EXCEPT ![p].pc = "commit"]

\* lines 185-188: load the referrer and add one to its count in the session
JoinReferrer(p) ==
  /\ req[p].op = "join"
  /\ req[p].pc = "referrer"
  /\ UNCHANGED <<waitlists, entries, fkEnforced, resp, nupd>>
  /\ LET id == req[p].entry.referred_by IN
     IF id \in 1..Len(entries)
       THEN req' = [req EXCEPT ![p].pc = "commit",
                               ![p].referrer = id,
                               ![p].count = entries[id].referral_count + 1]
       ELSE req' = [req EXCEPT ![p].pc = "commit"]

\* the unique constraint of WaitlistEntry.referral_code
CodeUniqueOk(e) == \A i \in 1..Len(entries) : entries[i].referral_code # e.referral_code

\* the foreign key of WaitlistEntry.referred_by, where the store enforces it
\* (a row may reference itself: the new row's id is Len(entries) + 1)
ReferredByOk(e) ==
  \/ ~fkEnforced
  \/ e.referred_by = 0
  \/ e.referred_by \in 1..(Len(entries) + 1)

\* Flush with the referrer's UPDATE filtered by waitlist_id instead of id: the
\* count is written to every entry of the referrer's waitlist
FlushWholeWaitlist(referrer, count, e) ==
  Append(IF referrer = 0
           THEN entries
           ELSE [i \in 1..Len(entries) |->
                   IF entries[i].waitlist_id = entries[referrer].waitlist_id
                     THEN [entries[i] EXCEPT !.referral_count = count]
                     ELSE entries[i]],
         e)

\* the session's flush: UPDATE of the dirty referrer, INSERT of the new entry
Flush(referrer, count, e) ==
  Append(IF referrer = 0
           THEN entries
           ELSE [entries EXCEPT ![referrer].referral_count = count],
         e)

\* lines 190-199: add the entry and commit; a failed commit is caught
JoinCommit(p) ==
  /\ req[p].op = "join"
  /\ req[p].pc = "commit"
  /\ UNCHANGED <<waitlists, fkEnforced, nupd>>
  /\ req' = [req EXCEPT ![p] = Idle]
  /\ IF CodeUniqueOk(req[p].entry) /\ ReferredByOk(req[p].entry)
       THEN /\ entries' = Flush(req[p].referrer, req[p].count, req[p].entry)
            /\ resp' = Ok("join", req[p].entry.position)
       ELSE /\ UNCHANGED entries
            /\ resp' = Caught("join", "IntegrityError")

\* ------------------------------------------------------ settings updates
BasicPatches ==
  {[k \in S |-> "x"] : S \in SUBSET {"name", "website_url"}}

ThankYouPatches ==
  {[k \in S |-> "x"] : S \in SUBSET {"title", "message", "custom_html"}}

SubmissionPatches ==
  {[k \in S |-> "x"] : S \in SUBSET {"notify_email", "auto_response",
                                     "response_email_template"}}

\* Gate without the comparison of waitlist.user_id with the session's user
GateSessionOnly(op, caller, wid) ==
  IF caller = NoUser THEN Unauthorized(op)
  ELSE IF wid \notin 1..Len(waitlists) THEN Caught(op, "NotFound")
  ELSE NoResponse

\* the session/owner gate and Waitlist.query.get_or_404 shared by the three
\* handlers: the response that ends the request early, NoResponse to go on
Gate(op, caller, wid) ==
  IF caller = NoUser THEN Unauthorized(op)
  ELSE IF wid \notin 1..Len(waitlists) THEN Caught(op, "NotFound")
  ELSE IF waitlists[wid].user_id # caller THEN Unauthorized(op)
  ELSE NoResponse

\* a request holding a loaded Waitlist and its changed attributes
Loaded(op, caller, wid, data, dirty) ==
  [op |-> op, caller |-> caller, wid |-> wid, data |-> data,
   loaded |-> waitlists[wid], dirty |-> dirty]

\* lines 253-254: the name and website_url of the loaded waitlist
BasicMerge(w, data) ==
  [w EXCEPT !.name = Get(data, "name", w.name),
            !.website_url = Get(data, "website_url", w.website_url)]

\* ThankYouMerge with the message defaulting to the stored title
ThankYouMergeWrongDefault(w, data) ==
  [w EXCEPT !.thank_you_page =
     [title |-> Get(data, "title", w.thank_you_page.title),
      message |-> Get(data, "message", w.thank_you_page.title),
      custom_html |-> Get(data, "custom_html", w.thank_you_page.custom_html)]]

\* lines 274-278: the thank_you_page document rebuilt from the body
ThankYouMerge(w, data) ==
  [w EXCEPT !.thank_you_page =
     [title |-> Get(data, "title", w.thank_you_page.title),
      message |-> Get(data, "message", w.thank_you_page.message),
      custom_html |-> Get(data, "custom_html", w.thank_you_page.custom_html)]]

\* lines 298-302: the submission_settings document rebuilt from the body
SubmissionMerge(w, data) ==
  [w EXCEPT !.submission_settings =
     [notify_email |-> Get(data, "notify_email", w.submission_settings.notify_email),
      auto_response |-> Get(data, "auto_response", w.submission_settings.auto_response),
      response_email_template |->
        Get(data, "response_email_template",
            w.submission_settings.response_email_template)]]

\* the part of a settings handler before its commit
UpdateLoad(p, op, caller, wid, data, dirty) ==
  /\ req[p] = Idle
  /\ nupd < MaxUpdates
  /\ UNCHANGED <<waitlists, entries, fkEnforced>>
  /\ IF Gate(op, caller, wid) # NoResponse
       THEN /\ resp' = Gate(op, caller, wid)
            /\ UNCHANGED <<req, nupd>>
       ELSE /\ req' = [req EXCEPT ![p] = Loaded(op, caller, wid, data, dirty)]
            /\ nupd' = nupd + 1
            /\ UNCHANGED resp

\* lines 243-254
UpdateBasicSettings(p, caller, wid, data) ==
  UpdateLoad(p, "basic", caller, wid, data,
             IF wid \in 1..Len(waitlists) THEN BasicMerge(waitlists[wid], data) ELSE Idle)

\* lines 264-278
UpdateThankYouSettings(p, caller, wid, data) ==
  UpdateLoad(p, "thank_you", caller, wid, data,
             IF wid \in 1..Len(waitlists) THEN ThankYouMerge(waitlists[wid], data) ELSE Idle)

\* lines 288-302
UpdateSubmissionSettings(p, caller, wid, data) ==
  UpdateLoad(p, "submission", caller, wid, data,
             IF wid \in 1..Len(waitlists) THEN SubmissionMerge(waitlists[wid], data) ELSE Idle)

\* the session's flush of a loaded Waitlist: UPDATE of the columns whose value
\* differs from the loaded one
FlushWaitlist(row, loaded, dirty) ==
  [c \in DOMAIN row |-> IF dirty[c] # loaded[c] THEN dirty[c] ELSE row[c]]

\* db.session.commit() and the success response of a settings handler
\* (lines 256-258, 280-282, 304-306)
UpdateCommit(p) ==
  /\ req[p].op \in {"basic", "thank_you", "submission"}
  /\ UNCHANGED <<entries, fkEnforced, nupd>>
  /\ waitlists' = [waitlists EXCEPT ![req[p].wid] =
                     FlushWaitlist(@, req[p].loaded, req[p].dirty)]
  /\ req' = [req EXCEPT ![p] = Idle]
  /\ resp' = Ok(req[p].op, 0)

\* ------------------------------------------------- the specifications
\* no request is being handled
Quiet == \A q \in Procs : req[q] = Idle

Create(p) ==
  \E c \in Callers, d \in CreatePayloads, k \in Uuid4FormKey : CreateWaitlist(p, c, d, k)

Join(p) ==
  \E s \in Slugs, d \in JoinPayloads, c \in Uuid4 : JoinRead(p, s, d, c)

\* the bodies to try for a settings request: a request the gate refuses never
\* reads its body, so one body stands for all of them
Bodies(op, c, w, patches) ==
  IF Gate(op, c, w) = NoResponse THEN patches ELSE {<<>>}

Basic(p) ==
  \E c \in Callers, w \in 1..MaxWaitlists :
    \E d \in Bodies("basic", c, w, BasicPatches) : UpdateBasicSettings(p, c, w, d)

ThankYou(p, patches) ==
  \E c \in Callers, w \in 1..MaxWaitlists :
    \E d \in Bodies("thank_you", c, w, patches) : UpdateThankYouSettings(p, c, w, d)

Submission(p, patches) ==
  \E c \in Callers, w \in 1..MaxWaitlists :
    \E d \in Bodies("submission", c, w, patches) : UpdateSubmissionSettings(p, c, w, d)

\* the patches tried where two settings requests interleave: none of the
\* fields, one field, all of them
ThankYouSample ==
  {d \in ThankYouPatches :
     DOMAIN d \in {{}, {"title"}, {"message"}, {"title", "message", "custom_html"}}}

SubmissionSample ==
  {d \in SubmissionPatches :
     DOMAIN d \in {{}, {"notify_email"}, {"auto_response"},
                   {"notify_email", "auto_response", "response_email_template"}}}

\* every handler, requests interleaving at their store accesses
Next ==
  \E p \in Procs :
    \/ Create(p)
    \/ Join(p)
    \/ JoinReferrer(p)
    \/ JoinCommit(p)
    \/ Basic(p)
    \/ ThankYou(p, ThankYouPatches)
    \/ Submission(p, SubmissionPatches)
    \/ UpdateCommit(p)

Spec == Init /\ [][Next]_vars

\* a Create of one signed-in user
CreateByOne(p) ==
  \E d \in CreatePayloads, k \in Uuid4FormKey : CreateWaitlist(p, "u1", d, k)

\* the enrollment requests alone (settings requests never touch entries, and
\* join_waitlist never reads a waitlist's owner)
JoinNext ==
  \E p \in Procs :
    \/ CreateByOne(p)
    \/ Join(p)
    \/ JoinReferrer(p)
    \/ JoinCommit(p)

SpecJoin == Init /\ [][JoinNext]_vars

\* the enrollment requests handled one at a time: a request starts only when
\* no other is being handled
SeqNext ==
  \E p \in Procs :
    \/ Quiet /\ CreateByOne(p)
    \/ Quiet /\ Join(p)
    \/ JoinReferrer(p)
    \/ JoinCommit(p)

SpecSeq == Init /\ [][SeqNext]_vars

\* the registry requests handled one at a time
SettingsSeqNext ==
  \E p \in Procs :
    \/ Quiet /\ CreateByOne(p)
    \/ Quiet /\ Basic(p)
    \/ Quiet /\ ThankYou(p, ThankYouPatches)
    \/ Quiet /\ Submission(p, SubmissionPatches)
    \/ UpdateCommit(p)

SpecSettingsSeq == Init /\ [][SettingsSeqNext]_vars

\* the registry requests alone (enrollment requests never touch waitlists)
SettingsNext ==
  \E p \in Procs :
    \/ Create(p)
    \/ Basic(p)
    \/ ThankYou(p, ThankYouSample)
    \/ Submission(p, SubmissionSample)
    \/ UpdateCommit(p)

SpecSettings == Init /\ [][SettingsNext]_vars

\* ------------------------------------------------------------ properties
\* the number of entries of waitlist w created no later than entry i
Rank(w, i) == Cardinality({j \in EntriesOf(w) : j <= i})

\* a request of p is at its commit and this step ends it
JoinCommits(p) ==
  /\ req[p].op = "join"
  /\ req[p].pc = "commit"
  /\ req'[p] = Idle

\* C1: when the Join calls are handled one after another, the k-th entry of a
\* waitlist (in creation order) has position k, so the positions of a waitlist
\* with N entries are exactly 1..N, and the position a Join returns is the
\* number of entries its waitlist then has (1 for the first).
C1_SequentialPositions ==
  /\ \A w \in 1..Len(waitlists) :
       \A i \in EntriesOf(w) : entries[i].position = Rank(w, i)
  /\ (resp.op = "join" /\ resp.status = 200) =>
       /\ Len(entries) > 0
       /\ resp.position = Cardinality(EntriesOf(entries[Len(entries)].waitlist_id))

C1_Witness ==
  /\ Len(entries) = 3
  /\ \A i \in 1..3 : entries[i].waitlist_id = 1 /\ entries[i].position = i
  /\ resp = Ok("join", 3)

\* C2: in every reachable state, also with interleaved Join calls, the
\* positions of one waitlist's entries are strictly increasing in creation
\* order and are exactly 1..n: no position is shared and none is skipped.
C2_ContiguousPositions ==
  \A w \in 1..Len(waitlists) :
    /\ \A i, j \in EntriesOf(w) : i < j => entries[i].position < entries[j].position
    /\ {entries[i].position : i \in EntriesOf(w)} = 1..Cardinality(EntriesOf(w))

\* C3: a Join naming a referrer (and drawing an unused referral code) succeeds
\* and creates its entry; if the referrer exists its referral_count grows by
\* exactly 1, if it does not exist nothing else in the store changes.
C3_ReferredJoin ==
  [][\A p \in Procs :
       (JoinCommits(p) /\ req[p].entry.referred_by # 0 /\ CodeUniqueOk(req[p].entry)) =>
         LET e == req[p].entry
             r == e.referred_by
         IN /\ resp' = Ok("join", e.position)
            /\ waitlists' = waitlists
            /\ entries' = Append(IF r \in 1..Len(entries)
                                   THEN [entries EXCEPT ![r].referral_count = @ + 1]
                                   ELSE entries,
                                 e)]_vars

\* C4: a Join on a url_slug that matches no waitlist answers "not found"
\* (status 404, not the status of a generic error) and persists nothing.
C4_UnknownSlugNotFound ==
  [][\A p \in Procs, s \in Slugs, d \in JoinPayloads, c \in Codes :
       (JoinRead(p, s, d, c) /\ WaitlistBySlug(s) = 0) =>
         /\ resp'.status = 404
         /\ entries' = entries]_vars

\* C5: Join is all-or-nothing.  A step that ends in a failure response leaves
\* the store as it was; the table of entries changes only in the one step in
\* which a Join commits, and that step adds the new entry and writes the
\* referrer's incremented count together.
C5_AllOrNothing ==
  [][/\ resp'.status # 200 => (entries' = entries /\ waitlists' = waitlists)
     /\ entries' # entries =>
          \E p \in Procs :
            /\ JoinCommits(p)
            /\ resp' = Ok("join", req[p].entry.position)
            /\ Len(entries') = Len(entries) + 1
            /\ entries'[Len(entries')] = req[p].entry
            /\ \A i \in 1..Len(entries) :
                 entries'[i] = IF i = req[p].referrer
                                 THEN [entries[i] EXCEPT !.referral_count = req[p].count]
                                 ELSE entries[i]]_vars

\* a Join that had loaded its referrer failed at its commit: no count changed
C5_Witness ==
  /\ resp = Caught("join", "IntegrityError")
  /\ Quiet
  /\ Len(entries) = 2
  /\ \A i \in 1..2 : entries[i].referral_count = 0 /\ entries[i].referred_by = 0

UpdateOps == {"basic", "thank_you", "submission"}

\* the caller of a settings request may not change waitlist w
NotOwner(c, w) ==
  \/ c = NoUser
  \/ w \in 1..Len(waitlists) /\ waitlists[w].user_id # c

\* what every step of a settings handler of kind op by p does: it answers, or
\* it leaves p holding a request of that kind
Answers(p, op) ==
  /\ req[p] = Idle
  /\ resp'.op = op \/ req'[p].op = op

Refused(op) ==
  /\ resp' = Unauthorized(op)
  /\ waitlists' = waitlists
  /\ req' = req

\* C6: a settings update (basic, thank-you page, submission) by a caller
\* without a session, or by one who is not the waitlist's owner, is answered
\* 401 Unauthorized and changes no waitlist; a waitlist row changes only in
\* the commit of a request of its owner.
C6_OwnerOnly ==
  [][/\ \A p \in Procs, c \in Callers, w \in 1..MaxWaitlists :
          NotOwner(c, w) =>
            /\ \A d \in BasicPatches :
                 (Answers(p, "basic") /\ UpdateBasicSettings(p, c, w, d))
                   => Refused("basic")
            /\ \A d \in ThankYouPatches :
                 (Answers(p, "thank_you") /\ UpdateThankYouSettings(p, c, w, d))
                   => Refused("thank_you")
            /\ \A d \in SubmissionPatches :
                 (Answers(p, "submission") /\ UpdateSubmissionSettings(p, c, w, d))
                   => Refused("submission")
     /\ \A w \in 1..Len(waitlists) :
          waitlists'[w] # waitlists[w] =>
            \E p \in Procs :
              /\ req[p].op \in UpdateOps
              /\ req'[p] = Idle
              /\ req[p].wid = w
              /\ req[p].caller = waitlists[w].user_id]_vars

C6_Witness ==
  /\ resp = Unauthorized("thank_you")
  /\ Len(waitlists) = 2
  /\ waitlists[1].user_id # waitlists[2].user_id
  /\ waitlists[1].name = "x"
  /\ waitlists[2].thank_you_page = DefaultThankYou

\* the document column a settings request rewrites
Document(op) == IF op = "thank_you" THEN "thank_you_page" ELSE "submission_settings"

\* C7: with the updates handled one after another, a successful thank-you or
\* submission update leaves every field of the document equal to the patch's
\* value when the patch supplies it, and to its value before the call when
\* it does not.
C7_MergePatch ==
  [][\A p \in Procs :
       (req[p].op \in {"thank_you", "submission"} /\ req'[p] = Idle) =>
         LET w == req[p].wid
             col == Document(req[p].op)
             d == req[p].data
         IN /\ resp' = Ok(req[p].op, 0)
            /\ DOMAIN waitlists'[w][col] = DOMAIN waitlists[w][col]
            /\ \A f \in DOMAIN waitlists[w][col] :
                 waitlists'[w][col][f] =
                   IF f \in DOMAIN d THEN d[f] ELSE waitlists[w][col][f]]_vars

\* a patch with only title, after one with only custom_html
C7_Witness ==
  /\ resp = Ok("thank_you", 0)
  /\ Len(waitlists) >= 1
  /\ waitlists[1].thank_you_page =
       [title |-> "x", message |-> DefaultThankYou.message, custom_html |-> "x"]

\* C8: no two waitlists ever share a url_slug; a Create whose url_slug is
\* taken fails with the store's uniqueness error, adds no waitlist and leaves
\* the existing ones as they were.
C8_UniqueSlug ==
  /\ [](\A i, j \in 1..Len(waitlists) :
          i # j => waitlists[i].url_slug # waitlists[j].url_slug)
  /\ [][\A p \in Procs, c \in Users, d \in CreatePayloads, k \in FormKeys :
          (/\ {"name", "description", "url_slug"} \subseteq DOMAIN d
           /\ WaitlistBySlug(d["url_slug"]) # 0
           /\ CreateWaitlist(p, c, d, k)) =>
            /\ resp' = Caught("create", "IntegrityError")
            /\ waitlists' = waitlists]_vars

C8_Witness ==
  /\ resp = Caught("create", "IntegrityError")
  /\ Len(waitlists) = 1
  /\ waitlists[1].url_slug = "beta"

\* C9: in every reachable state every entry's referral_count is the number of
\* entries whose referred_by is that entry's id.
C9_ReferralCountMatches ==
  \A e \in 1..Len(entries) :
    entries[e].referral_count =
      Cardinality({i \in 1..Len(entries) : entries[i].referred_by = e})

\* the set of positions of waitlist w
Positions(w) == {entries[i].position : i \in EntriesOf(w)}

\* C10: under any interleaving of Joins the positions present in a waitlist
\* are exactly 1..m, m the largest of them, and the position a Join returns
\* is at most 1 plus the number of entries its waitlist holds at its commit.
C10_NoSkippedPosition ==
  /\ [](\A w \in 1..Len(waitlists) : Positions(w) = 1..Cardinality(Positions(w)))
  /\ [][\A p \in Procs :
          (JoinCommits(p) /\ resp'.status = 200) =>
            /\ resp'.position = entries'[Len(entries')].position
            /\ resp'.position <= 1 + Cardinality(EntriesOf(req[p].entry.waitlist_id))]_vars

\* two entries share position 1 and a third has position 2
C10_Witness ==
  /\ Len(entries) = 3
  /\ \A i \in 1..3 : entries[i].waitlist_id = 1
  /\ entries[1].position = 1
  /\ entries[2].position = 1
  /\ entries[3].position = 2

\* a step of some join_waitlist request: it starts one, moves one on, or
\* answers one
JoinStep ==
  \/ \E p \in Procs : req[p].op = "join" /\ req'[p] # req[p]
  \/ \E p \in Procs : req[p] = Idle /\ req'[p].op = "join"
  \/ req' = req /\ resp'.op = "join"

\* no entry is deleted, and the columns a Join never writes keep their values
EntriesKept ==
  /\ Len(entries') >= Len(entries)
  /\ \A i \in 1..Len(entries) :
       /\ entries'[i].position = entries[i].position
       /\ entries'[i].waitlist_id = entries[i].waitlist_id
       /\ entries'[i].email = entries[i].email
       /\ entries'[i].referral_code = entries[i].referral_code

\* C11 as stated: a Join on waitlist W changes no waitlist row and no entry of
\* a waitlist other than W, whatever its referred_by; position, waitlist_id,
\* email and referral_code of existing entries never change and no entry is
\* deleted.
C11_NothingOutsideWaitlist ==
  [][JoinStep =>
       /\ waitlists' = waitlists
       /\ EntriesKept
       /\ \A p \in Procs :
            JoinCommits(p) =>
              \A i \in 1..Len(entries) :
                entries[i].waitlist_id # req[p].entry.waitlist_id
                  => entries'[i] = entries[i]]_vars

\* C11 as amended: a Join changes no waitlist row; of the existing entries it
\* changes at most the referral_count of the one its referred_by names, which
\* may belong to any waitlist; position, waitlist_id, email and referral_code
\* of existing entries never change and no entry is deleted.
C11_OnlyReferrerCount ==
  [][JoinStep =>
       /\ waitlists' = waitlists
       /\ EntriesKept
       /\ \A i \in 1..Len(entries) :
            entries'[i] # entries[i] =>
              \E p \in Procs :
                /\ JoinCommits(p)
                /\ i = req[p].entry.referred_by
                /\ entries'[i] = [entries[i] EXCEPT !.referral_count = entries'[i].referral_count]]_vars

\* a Join on waitlist 2 named an entry of waitlist 1, with another entry of
\* waitlist 1 left as it was
C11_Witness ==
  /\ Len(entries) = 3
  /\ entries[1].waitlist_id = 1 /\ entries[1].referral_count = 1
  /\ entries[2].waitlist_id = 1 /\ entries[2].referral_count = 0
  /\ entries[3].waitlist_id = 2 /\ entries[3].referred_by = 1
====
